---- MODULE Spec2Model ----
(***************************************************************************)
(* Event collection and delivery pipeline of the RootSense Python SDK:     *)
(* ErrorCollector (rootsense/collectors/error_collector.py) with its       *)
(* bounded queue, background worker, flush() and stop(), and HttpTransport *)
(* (rootsense/transport/http_transport.py) with its retry loop.            *)
(*                                                                         *)
(* Spec          the collector: producers, worker thread, flush(), stop(). *)
(* LiveSpec      the collector without a flush() caller, with the fairness *)
(*               the thread scheduler and the clock give.                  *)
(* TransportSpec one HttpTransport.send_events call after another, and     *)
(*               one send_success_signal call after another.               *)
(* TrackerSpec   the auto-resolution tracker: threads calling              *)
(*               capture_exception and capture_success, and the clock.     *)
(* FingerprintSpec  _generate_fingerprint applied to two captured errors.  *)
(* EventSpec     the event dict capture_exception and capture_message      *)
(*               build, with the thread's ambient rootsense.context.       *)
(* AppSpec       the application's side: the two init()/get_client()       *)
(*               pointers, middleware construction and requests, and       *)
(*               RootSenseClient.close().                                  *)
(*                                                                         *)
(* A captured event is the number of the capture_* call that built it      *)
(* (its uuid4 event_id); the Prometheus metric events of one scrape are    *)
(* Metric.  The clock ticks once per 5 seconds, the only span the worker   *)
(* compares with.  The queue capacity and the batch threshold are the      *)
(* code's 1000 and 100 scaled down.                                        *)
(***************************************************************************)
EXTENDS Integers, Sequences, FiniteSets, TLC

\* ---------------------------------------------------------------- bounds
MaxCalls == 3           \* capture_* calls in one run
MaxEvents == 2          \* longest list handed to send_events in TransportSpec

\* ------------------------------------------------------ program constants
QueueMaxSize == 2       \* queue.Queue(maxsize=1000), scaled
BatchSize == 2          \* len(batch) >= 100, scaled
FlushInterval == 1      \* time.time() - last_flush >= 5: one tick of 5 s

None == 0               \* the null event id
Metric == -1            \* the events of type "metric" of one scrape
CloseTimeout == 1       \* flush(timeout=5), the default and close()'s: one tick
Large == 2              \* a timeout longer than the run: never expires

Hour == 2               \* timedelta(hours=1), in steps of half an hour
BufferSizes == {1}                   \* Config(buffer_size=...), below maxsize
Timeouts == {0, CloseTimeout, Large}

VARIABLES
    buffer_size,      \* config.buffer_size
    metrics_enabled,  \* self._metrics_enabled
    queue,            \* self._queue
    stop_event,       \* self._stop_event
    recent_errors,    \* self._recent_errors: fingerprint -> age of the entry
    returned,         \* returned[k]: what the k-th capture_* call returned
    worker_pc,        \* position of the worker thread in _worker
    batch,            \* _worker's local batch
    elapsed,          \* time.time() - last_flush, capped at FlushInterval
    since_flush,      \* history: events _worker dequeued since its last flush
    flush_pc,         \* position of the thread that calls flush()
    flush_batch,      \* flush's local batch
    deadline,         \* ticks left until flush's deadline
    flush_mark,       \* history: Len(returned) when flush() was called
    stop_mark,        \* history: Len(returned) when stop() was called
    sent,             \* history: the lists passed to http_transport.send_events
    t_pc,             \* position inside HttpTransport.send_events
    t_events,         \* length of the list send_events was called with
    attempt,          \* the for loop's attempt
    posts,            \* history: outcomes of the session.post calls of this call
    sleeps,           \* history: time.sleep durations of this call
    t_result,         \* what send_events returned
    s_pc,             \* position inside HttpTransport.send_success_signal
    s_posts,          \* history: outcomes of the session.post calls of this call
    s_result,         \* what send_success_signal returned
    recent_successes, \* self._recent_successes: fingerprint -> age of the entry
    lock,             \* the thread inside "with self._lock", 0 when free
    pc,               \* pc[t]: position of thread t in its capture_* call
    local,            \* local[t]: endpoint and fingerprint of thread t's call
    last_failure,     \* history: the capture_exception call that returned last,
                      \* while no other capture has been called since
    episode_signals,  \* history: send_success_signal calls per fingerprint
                      \* since its failure was last recorded, capped at 2
    fp_in,            \* the two (error type, context) inputs of FingerprintSpec
    fp_out,           \* what _generate_fingerprint returned for them
    ambient,          \* rootsense.context._context._local.context
    ev_out,           \* the last capture_* call of EventSpec: its arguments,
                      \* the event it queued and the id it returned
    pkg_client,       \* rootsense._client
    cfg_client,       \* rootsense.config._client
    created,          \* the RootSenseClient objects constructed so far
    initialized,      \* the clients whose _initialized is True
    flush_calls,      \* history: error_collector.flush calls made by close(),
                      \* per client, capped at 2
    close_calls,      \* history: close() calls per client, capped at 2
    mw,               \* the middleware object: its kind and self.client
    request           \* the last request through the middleware: what the
                      \* application did, what was captured, what propagated

cvars == <<buffer_size, metrics_enabled, queue, stop_event, returned,
           recent_errors,
           worker_pc, batch, elapsed, since_flush, flush_pc, flush_batch,
           deadline, flush_mark, stop_mark, sent>>
evars == <<t_pc, t_events, attempt, posts, sleeps, t_result>>
svars == <<s_pc, s_posts, s_result>>
tvars == <<evars, svars>>
kvars == <<recent_successes, lock, pc, local, last_failure, episode_signals>>
pvars == <<fp_in, fp_out, ambient, ev_out>>
avars == <<pkg_client, cfg_client, created, initialized, flush_calls,
           close_calls, mw, request>>
xvars == <<kvars, pvars, avars>>
vars == <<cvars, tvars, xvars>>

\* ---------------------------------------------------------------- helpers
RECURSIVE Flatten(_)
Flatten(bs) == IF bs = <<>> THEN <<>> ELSE Head(bs) \o Flatten(Tail(bs))

Elems(s) == {s[i] : i \in 1..Len(s)}

\* ids of the calls among the first n that returned an event id
AcceptedUpTo(n) == {returned[k] : k \in 1..n} \ {None}

\* every captured (non metric) event handed to the transport so far
SentIds == Elems(Flatten(sent)) \ {Metric}

\* ----------------------------------------------------------- fingerprints
\* A string is the sequence of its pieces; "|" is a piece of its own.
Bar == <<"|">>
Unknown == <<"unknown">>
ProjectId == <<"svc">>           \* config.project_id
ValueError == <<"ValueError">>   \* type(exception).__name__
Star == <<"*">>                  \* the name of type("*", (Exception,), {})

\* context=None or {}: "if context" is false for both
NoContext == <<>>

\* context.get(key, default)
Get(context, key, default) ==
    IF key \in DOMAIN context THEN context[key] ELSE default

\* hashlib.sha256(s.encode()).hexdigest()[:16]: equal strings give equal
\* digests; distinct strings of the model give distinct digests
Sha256Hex16(str) == <<"sha256">> \o str

\* f"{error_type}|{service}|{endpoint}"
FingerprintStr(error_type, service, endpoint) ==
    error_type \o Bar \o service \o Bar \o endpoint

generate_fingerprint(error_type, context) ==
    Sha256Hex16(FingerprintStr(error_type,
                               Get(context, "service", Unknown),
                               Get(context, "endpoint", Unknown)))

generate_success_fingerprint(endpoint) ==
    Sha256Hex16(FingerprintStr(Star, ProjectId, endpoint))

\* the fingerprint of the exceptions captured in Spec and LiveSpec
Fingerprints == {generate_fingerprint(ValueError, NoContext)}

\* ------------------------------------------------- auto-resolution tables
Threads == {1, 2}                \* threads calling capture_* in TrackerSpec
Endpoints == {<<"/a">>}
ErrorTypes == {ValueError, Star}
NoCall == <<>>

\* the context DjangoMiddleware passes to capture_exception
MiddlewareContext(endpoint) == [endpoint |-> endpoint, service |-> ProjectId]
Contexts == {NoContext} \cup {MiddlewareContext(e) : e \in Endpoints}

EmptyTable == [f \in {} |-> 0]

\* table[fingerprint] = datetime.utcnow()
Upsert(table, fingerprint) ==
    [f \in DOMAIN table \cup {fingerprint} |->
        IF f = fingerprint THEN 0 ELSE table[f]]

\* del table[fingerprint]
Delete(table, fingerprint) ==
    [f \in DOMAIN table \ {fingerprint} |-> table[f]]

\* half an hour later
Aged(table) ==
    [f \in DOMAIN table |-> IF table[f] < Hour THEN table[f] + 1 ELSE Hour]

\* an entry exactly one hour old still counts
Recent_Inclusive(age) == age <= Hour

\* datetime.utcnow() - last_error < timedelta(hours=1)
Recent(age) == age < Hour

\* ------------------------------------------------------------ the client
Clients == {1, 2}       \* the RootSenseClient objects a run constructs
NoClient == 0           \* None

\* ------------------------------------------------------ rootsense.context
EmptyDict == <<>>
MaxBreadcrumbs == 1     \* deque(maxlen=100), scaled

\* what _get_context creates on first use
EmptyAmbient ==
    [tags |-> EmptyDict, extra |-> EmptyDict, user |-> EmptyDict,
     breadcrumbs |-> <<>>]

\* d[key] = value
SetItem(d, key, value) ==
    [k \in DOMAIN d \cup {key} |-> IF k = key THEN value ELSE d[k]]

\* d.update(u)
Update(d, u) ==
    [k \in DOMAIN d \cup DOMAIN u |-> IF k \in DOMAIN u THEN u[k] ELSE d[k]]

\* deque(maxlen=n).append(x)
DequeAppend(q, x, n) ==
    LET a == Append(q, x)
    IN  IF Len(a) > n THEN SubSeq(a, Len(a) - n + 1, Len(a)) ELSE a

\* ------------------------------------------------------------------ Init
CollectorInit ==
    /\ buffer_size \in BufferSizes
    /\ metrics_enabled \in BOOLEAN
    /\ queue = <<>>
    /\ stop_event = FALSE
    /\ returned = <<>>
    /\ recent_errors = EmptyTable
    /\ worker_pc = "unstarted"
    /\ batch = <<>>
    /\ elapsed = 0
    /\ since_flush = <<>>
    /\ flush_pc = "idle"
    /\ flush_batch = <<>>
    /\ deadline = 0
    /\ flush_mark = 0
    /\ stop_mark = 0
    /\ sent = <<>>

TransportInit ==
    /\ t_pc = "idle"
    /\ t_events = 0
    /\ attempt = 0
    /\ posts = <<>>
    /\ sleeps = <<>>
    /\ t_result = "none"
    /\ s_pc = "idle"
    /\ s_posts = <<>>
    /\ s_result = "none"

TrackerInit ==
    /\ recent_successes = EmptyTable
    /\ lock = 0
    /\ pc = [t \in Threads |-> "idle"]
    /\ local = [t \in Threads |-> NoCall]
    /\ last_failure = NoCall
    /\ episode_signals = [f \in {} |-> 0]

\* no thread has touched rootsense.context yet
AmbientInit == ambient = EmptyAmbient

EventInit == AmbientInit /\ ev_out = NoCall

\* _client = None in both modules; nothing constructed yet
AppInit ==
    /\ pkg_client = NoClient
    /\ cfg_client = NoClient
    /\ created = {}
    /\ initialized = {}
    /\ flush_calls = [c \in Clients |-> 0]
    /\ close_calls = [c \in Clients |-> 0]
    /\ mw = NoCall
    /\ request = NoCall

Init ==
    /\ CollectorInit /\ TransportInit /\ TrackerInit /\ EventInit /\ AppInit
    /\ fp_in = <<>> /\ fp_out = <<>>

\* ------------------------------------------------------------- producers
\* self._queue.put_nowait(event): queue.Full once maxsize items are queued
QueueFull(q) == Len(q) >= QueueMaxSize

Enqueue(id) ==
    IF QueueFull(queue)
    THEN /\ returned' = Append(returned, None)
         /\ UNCHANGED queue
    ELSE /\ queue' = Append(queue, id)
         /\ returned' = Append(returned, id)

\* what one _collect_prometheus_metrics() call returns: [] when metrics are
\* off or the scrape fails, otherwise the registry's samples as "metric"
\* events.  Metric stands for that whole non-empty run of events: the code
\* reads nothing of a batch, after extending it, but whether it is empty.
CollectedMetrics ==
    IF metrics_enabled THEN {<<>>, <<Metric>>} ELSE {<<>>}

capture_message ==
    /\ Len(returned) < MaxCalls
    /\ Enqueue(Len(returned) + 1)
    /\ UNCHANGED <<buffer_size, metrics_enabled, stop_event, recent_errors,
                   worker_pc, batch, elapsed, since_flush, flush_pc,
                   flush_batch, deadline, flush_mark, stop_mark,
                   sent, tvars, xvars>>

\* the failure is recorded in _recent_errors before the event is queued
capture_exception ==
    /\ Len(returned) < MaxCalls
    /\ \E fingerprint \in Fingerprints :
          recent_errors' = Upsert(recent_errors, fingerprint)
    /\ Enqueue(Len(returned) + 1)
    /\ UNCHANGED <<buffer_size, metrics_enabled, stop_event,
                   worker_pc, batch, elapsed, since_flush, flush_pc,
                   flush_batch, deadline, flush_mark, stop_mark,
                   sent, tvars, xvars>>

\* ---------------------------------------------------------- worker thread
start ==
    /\ worker_pc = "unstarted"
    /\ worker_pc' = "while"
    /\ batch' = <<>>
    /\ elapsed' = 0
    /\ UNCHANGED <<buffer_size, metrics_enabled, queue, stop_event, returned,
                   recent_errors, since_flush, flush_pc, flush_batch, deadline,
                   flush_mark, stop_mark, sent, tvars, xvars>>

\* a loop that does not look at the stop event
LoopContinues_Always(stop) == TRUE

\* while not self._stop_event.is_set()
LoopContinues(stop) == ~stop

WorkerWhile ==
    /\ worker_pc = "while"
    /\ worker_pc' = IF LoopContinues(stop_event) THEN "get" ELSE "exit"
    /\ UNCHANGED <<buffer_size, metrics_enabled, queue, stop_event, returned,
                   recent_errors, batch, elapsed, since_flush, flush_pc,
                   flush_batch, deadline, flush_mark, stop_mark,
                   sent, tvars, xvars>>

\* the flush decision without its size test, and without its time test
ShouldFlush_TimeOnly(b, e) == Len(b) > 0 /\ e >= FlushInterval
ShouldFlush_SizeOnly(b, e) == Len(b) >= BatchSize

\* should_flush = len(batch) >= 100 or (len(batch) > 0 and now - last_flush >= 5)
ShouldFlush(b, e) ==
    Len(b) >= BatchSize \/ (Len(b) > 0 /\ e >= FlushInterval)

\* the batch kept after it was sent
BatchAfterSend_Kept(b) == b

\* batch = [] after self._send_batch(batch)
BatchAfterSend(b) == <<>>

\* what http_transport.send_events did, as _send_batch sees it
SendResults == {"True", "False", "raise"}

\* a batch that was not delivered goes back to the head of the queue
QueueAfterSend_Requeued(result, q, b) == IF result = "True" THEN q ELSE b \o q

\* the queue after _send_batch(b): success is only logged, an Exception is
\* caught and logged; neither branch touches the queue
QueueAfterSend(result, q, b) == q

\* one pass of the loop body up to the call of _send_batch: queue.get with
\* its 0.5 s timeout (an event, or queue.Empty), then the flush decision
WorkerGet ==
    /\ worker_pc = "get"
    /\ LET got == queue # <<>>
           b1 == IF got THEN Append(batch, Head(queue)) ELSE batch
       IN /\ queue' = IF got THEN Tail(queue) ELSE queue
          /\ since_flush' = IF got THEN Append(since_flush, Head(queue))
                                   ELSE since_flush
          /\ IF ShouldFlush(b1, elapsed)
             THEN \E metric_events \in CollectedMetrics :
                     /\ batch' = b1 \o metric_events
                     /\ sent' = Append(sent, batch')
                     /\ worker_pc' = "send"
             ELSE /\ batch' = b1
                  /\ sent' = sent
                  /\ worker_pc' = "while"
    /\ UNCHANGED <<buffer_size, metrics_enabled, stop_event, returned,
                   recent_errors, elapsed, flush_pc, flush_batch, deadline,
                   flush_mark, stop_mark, tvars, xvars>>

\* http_transport.send_events(batch) returns (or raises: _send_batch catches
\* every Exception); batch = []; last_flush = time.time()
WorkerSendReturn ==
    /\ worker_pc = "send"
    /\ \E result \in SendResults :
          queue' = QueueAfterSend(result, queue, batch)
    /\ batch' = BatchAfterSend(batch)
    /\ since_flush' = <<>>
    /\ elapsed' = 0
    /\ worker_pc' = "while"
    /\ UNCHANGED <<buffer_size, metrics_enabled, stop_event, returned,
                   recent_errors, flush_pc, flush_batch, deadline, flush_mark,
                   stop_mark, sent, tvars, xvars>>

\* after the loop: metric events are appended, the batch is sent if not empty
WorkerExit ==
    /\ worker_pc = "exit"
    /\ \E metric_events \in CollectedMetrics :
          /\ batch' = batch \o metric_events
          /\ IF batch' # <<>>
             THEN sent' = Append(sent, batch') /\ worker_pc' = "final_send"
             ELSE sent' = sent /\ worker_pc' = "stopped"
    /\ IF worker_pc' = "stopped"
       THEN since_flush' = <<>> /\ elapsed' = 0
       ELSE UNCHANGED <<since_flush, elapsed>>
    /\ UNCHANGED <<buffer_size, metrics_enabled, queue, stop_event, returned,
                   recent_errors, flush_pc, flush_batch,
                   deadline, flush_mark, stop_mark, tvars, xvars>>

\* the last _send_batch returns and the thread ends; its locals are gone
WorkerFinalReturn ==
    /\ worker_pc = "final_send"
    /\ \E result \in SendResults :
          queue' = QueueAfterSend(result, queue, batch)
    /\ worker_pc' = "stopped"
    /\ batch' = <<>>
    /\ since_flush' = <<>>
    /\ elapsed' = 0
    /\ UNCHANGED <<buffer_size, metrics_enabled, stop_event, returned,
                   recent_errors, flush_pc, flush_batch, deadline, flush_mark,
                   stop_mark, sent, tvars, xvars>>

\* ------------------------------------------------------------------ flush
\* deadline = time.time() + timeout
flush ==
    /\ flush_pc \in {"idle", "returned"}
    /\ \E timeout \in Timeouts : deadline' = timeout
    /\ flush_mark' = Len(returned)
    /\ flush_batch' = <<>>
    /\ flush_pc' = "wait"
    /\ UNCHANGED <<buffer_size, metrics_enabled, queue, stop_event, returned,
                   recent_errors, worker_pc, batch, elapsed, since_flush,
                   stop_mark, sent, tvars, xvars>>

\* while not self._queue.empty() and time.time() < deadline: time.sleep(0.1)
FlushWaitOver(q, d) == q = <<>> \/ d = 0

FlushWait ==
    /\ flush_pc = "wait"
    /\ FlushWaitOver(queue, deadline)
    /\ flush_pc' = "drain"
    /\ UNCHANGED <<buffer_size, metrics_enabled, queue, stop_event, returned,
                   recent_errors, worker_pc, batch, elapsed, since_flush,
                   flush_batch, deadline, flush_mark, stop_mark,
                   sent, tvars, xvars>>

\* while not self._queue.empty(): batch.append(self._queue.get_nowait())
\* and then: if batch: self._send_batch(batch)
FlushDrain ==
    /\ flush_pc = "drain"
    /\ IF queue # <<>>
       THEN /\ flush_batch' = Append(flush_batch, Head(queue))
            /\ queue' = Tail(queue)
            /\ UNCHANGED <<flush_pc, sent>>
       ELSE /\ UNCHANGED <<flush_batch, queue>>
            /\ IF flush_batch # <<>>
               THEN sent' = Append(sent, flush_batch) /\ flush_pc' = "send"
               ELSE sent' = sent /\ flush_pc' = "returned"
    /\ UNCHANGED <<buffer_size, metrics_enabled, stop_event, returned,
                   recent_errors, worker_pc, batch, elapsed, since_flush,
                   deadline, flush_mark, stop_mark, tvars, xvars>>

\* _send_batch returns and flush with it; its locals are gone
FlushSendReturn ==
    /\ flush_pc = "send"
    /\ \E result \in SendResults :
          queue' = QueueAfterSend(result, queue, flush_batch)
    /\ flush_pc' = "returned"
    /\ flush_batch' = <<>>
    /\ UNCHANGED <<buffer_size, metrics_enabled, stop_event, returned,
                   recent_errors, worker_pc, batch, elapsed, since_flush,
                   deadline, flush_mark, stop_mark, sent, tvars, xvars>>

\* ------------------------------------------------------------------- stop
\* self._stop_event.set(); the join(timeout=5) that follows changes nothing
stop ==
    /\ ~stop_event
    /\ stop_event' = TRUE
    /\ stop_mark' = Len(returned)
    /\ UNCHANGED <<buffer_size, metrics_enabled, queue, returned,
                   recent_errors, worker_pc, batch, elapsed, since_flush,
                   flush_pc, flush_batch, deadline, flush_mark, sent, tvars, xvars>>

\* ------------------------------------------------------------------ clock
\* one tick passes: read by the worker (now - last_flush) and by flush
Tick ==
    /\ \/ worker_pc \in {"while", "get", "send"} /\ elapsed < FlushInterval
       \/ flush_pc = "wait" /\ deadline \in 1..CloseTimeout
    /\ elapsed' = IF worker_pc \in {"while", "get", "send"}
                     /\ elapsed < FlushInterval
                  THEN elapsed + 1 ELSE elapsed
    /\ deadline' = IF flush_pc = "wait" /\ deadline \in 1..CloseTimeout
                   THEN deadline - 1 ELSE deadline
    /\ UNCHANGED <<buffer_size, metrics_enabled, queue, stop_event, returned,
                   recent_errors, worker_pc, batch, since_flush, flush_pc,
                   flush_batch, flush_mark, stop_mark, sent, tvars, xvars>>

WorkerStep ==
    \/ WorkerWhile
    \/ WorkerGet
    \/ WorkerSendReturn
    \/ WorkerExit
    \/ WorkerFinalReturn

Next ==
    \/ capture_message
    \/ capture_exception
    \/ start
    \/ WorkerWhile
    \/ WorkerGet
    \/ WorkerSendReturn
    \/ WorkerExit
    \/ WorkerFinalReturn
    \/ flush
    \/ FlushWait
    \/ FlushDrain
    \/ FlushSendReturn
    \/ stop
    \/ Tick

Spec == Init /\ [][Next]_vars

\* The collector with no flush() caller: what the worker delivers alone.  The
\* worker thread is scheduled, every transport call returns (bounded retries,
\* bounded request timeout) and the clock advances.
LiveNext ==
    \/ capture_message
    \/ capture_exception
    \/ start
    \/ WorkerWhile
    \/ WorkerGet
    \/ WorkerSendReturn
    \/ WorkerExit
    \/ WorkerFinalReturn
    \/ stop
    \/ Tick

LiveSpec ==
    /\ Init
    /\ [][LiveNext]_vars
    /\ WF_vars(WorkerStep)
    /\ WF_vars(Tick)

\* ------------------------------------------------- HttpTransport.send_events
RequestException == -1   \* session.post raised requests.RequestException
OtherException == -2     \* session.post raised any other exception
Statuses == {200, 204, 400, 404, 500, 503}
Outcomes == Statuses \cup {RequestException, OtherException}

\* for attempt in range(3)
MaxAttempts == 3

\* 4xx answers treated like server errors
ClientError_Below400(status) == status < 400

\* if response.status_code < 500: return False
ClientError(status) == status < 500

\* 2 ** attempt
RECURSIVE Pow2(_)
Pow2(n) == IF n = 0 THEN 1 ELSE 2 * Pow2(n - 1)

\* the loop ended one attempt early
MoreAttempts_OneFewer(a) == a + 1 < MaxAttempts - 1

\* for attempt in range(3): another attempt follows attempt a
MoreAttempts(a) == a + 1 < MaxAttempts

\* a sleep after every failed attempt, the last one too
SleepsAfter_Always(a) == a < MaxAttempts

\* if attempt < 2: time.sleep(2 ** attempt)
SleepsAfter(a) == a < 2

\* the call, up to the first session.post; an empty list returns True at once
send_events ==
    /\ t_pc \in {"idle", "returned", "raised"}
    /\ \E n \in 0..MaxEvents :
          /\ t_events' = n
          /\ IF n = 0
             THEN t_pc' = "returned" /\ t_result' = "True"
             ELSE t_pc' = "post" /\ t_result' = "none"
    /\ attempt' = 0
    /\ posts' = <<>>
    /\ sleeps' = <<>>
    /\ UNCHANGED <<svars, cvars, xvars>>

\* one session.post and the handling of its response or exception
Post ==
    /\ t_pc = "post"
    /\ \E o \in Outcomes :
          /\ posts' = Append(posts, o)
          /\ IF o = OtherException
             THEN t_pc' = "raised" /\ t_result' = "raise"
             ELSE IF o = RequestException
             THEN t_pc' = "backoff" /\ t_result' = t_result
             ELSE IF o = 200
             THEN t_pc' = "returned" /\ t_result' = "True"
             ELSE IF ClientError(o)
             THEN t_pc' = "returned" /\ t_result' = "False"
             ELSE t_pc' = "backoff" /\ t_result' = t_result
    /\ UNCHANGED <<t_events, attempt, sleeps, svars, cvars, xvars>>

\* the end of a failed pass: the backoff sleep, then the next attempt or,
\* when range(3) is exhausted, return False
Backoff ==
    /\ t_pc = "backoff"
    /\ sleeps' = IF SleepsAfter(attempt) THEN Append(sleeps, Pow2(attempt))
                                         ELSE sleeps
    /\ attempt' = attempt + 1
    /\ IF MoreAttempts(attempt)
       THEN t_pc' = "post" /\ t_result' = t_result
       ELSE t_pc' = "returned" /\ t_result' = "False"
    /\ UNCHANGED <<t_events, posts, svars, cvars, xvars>>

\* ------------------------------------------ HttpTransport.send_success_signal
\* what the call returns after a session.post with outcome o:
\* response.status_code == 200, False on RequestException; any other
\* exception is not caught
SignalResult(o) ==
    IF o = OtherException THEN "raise"
    ELSE IF o = RequestException THEN "False"
    ELSE IF o = 200 THEN "True"
    ELSE "False"

\* the call, up to its session.post
send_success_signal ==
    /\ s_pc \in {"idle", "returned", "raised"}
    /\ s_pc' = "post"
    /\ s_posts' = <<>>
    /\ s_result' = "none"
    /\ UNCHANGED <<evars, cvars, xvars>>

\* the single session.post(url, json=..., timeout=5) and the return
SignalPost ==
    /\ s_pc = "post"
    /\ \E o \in Outcomes :
          /\ s_posts' = Append(s_posts, o)
          /\ s_result' = SignalResult(o)
          /\ s_pc' = IF SignalResult(o) = "raise" THEN "raised" ELSE "returned"
    /\ UNCHANGED <<evars, cvars, xvars>>

TransportNext ==
    \/ send_events \/ Post \/ Backoff
    \/ send_success_signal \/ SignalPost

TransportSpec == Init /\ [][TransportNext]_vars

\* ---------------------------------------------- auto-resolution tracker
\* collector state the tracker's calls leave alone
wvars == <<buffer_size, metrics_enabled, stop_event, worker_pc, batch,
           elapsed, since_flush, flush_pc, flush_batch, deadline, flush_mark,
           stop_mark, sent>>

\* a lock that excludes nobody
Acquirable_Always(l) == TRUE

\* "with self._lock" is entered once no other thread is inside it
Acquirable(l) == l = 0

OthersIdle(t) == \A u \in Threads \ {t} : pc[u] = "idle"

\* capture_exception up to "with self._lock": the fingerprint is computed
capture_exception_call(t) ==
    /\ pc[t] = "idle"
    /\ Len(returned) + Cardinality({u \in Threads : pc[u] = "exc_lock"})
          < MaxCalls
    /\ \E error_type \in ErrorTypes, context \in Contexts :
          local' = [local EXCEPT ![t] =
                      [endpoint |-> Get(context, "endpoint", Unknown),
                       service |-> Get(context, "service", Unknown),
                       fingerprint |->
                           generate_fingerprint(error_type, context)]]
    /\ pc' = [pc EXCEPT ![t] = "exc_lock"]
    /\ last_failure' = NoCall
    /\ UNCHANGED <<queue, returned, recent_errors, recent_successes, lock,
                   episode_signals, wvars, tvars, pvars, avars>>

\* capture_exception from "with self._lock" to its return: the failure is
\* recorded, the lock released, the event built and queued
capture_exception_locked(t) ==
    /\ pc[t] = "exc_lock"
    /\ Acquirable(lock)
    /\ recent_errors' = Upsert(recent_errors, local[t].fingerprint)
    /\ episode_signals' = Upsert(episode_signals, local[t].fingerprint)
    /\ Enqueue(Len(returned) + 1)
    /\ pc' = [pc EXCEPT ![t] = "idle"]
    /\ local' = [local EXCEPT ![t] = NoCall]
    /\ last_failure' = IF OthersIdle(t) THEN local[t] ELSE NoCall
    /\ UNCHANGED <<recent_successes, lock, wvars, tvars, pvars, avars>>

\* capture_success up to "with self._lock"
capture_success_call(t) ==
    /\ pc[t] = "idle"
    /\ \E endpoint \in Endpoints :
          local' = [local EXCEPT ![t] =
                      [endpoint |-> endpoint,
                       service |-> ProjectId,
                       fingerprint |-> generate_success_fingerprint(endpoint)]]
    /\ pc' = [pc EXCEPT ![t] = "suc_lock"]
    /\ last_failure' = IF OthersIdle(t) THEN last_failure ELSE NoCall
    /\ UNCHANGED <<queue, returned, recent_errors, recent_successes, lock,
                   episode_signals, wvars, tvars, pvars, avars>>

\* if fingerprint in self._recent_errors and the entry is under an hour old
Qualifies(fingerprint) ==
    /\ fingerprint \in DOMAIN recent_errors
    /\ Recent(recent_errors[fingerprint])

\* capture_success inside "with self._lock", up to the transport call or,
\* without a qualifying failure, to the return
capture_success_locked(t) ==
    /\ pc[t] = "suc_lock"
    /\ Acquirable(lock)
    /\ recent_successes' = Upsert(recent_successes, local[t].fingerprint)
    /\ IF Qualifies(local[t].fingerprint)
       THEN /\ lock' = t
            /\ pc' = [pc EXCEPT ![t] = "suc_send"]
            /\ episode_signals' =
                 [episode_signals EXCEPT ![local[t].fingerprint] =
                     IF @ < 2 THEN @ + 1 ELSE 2]
            /\ UNCHANGED local
       ELSE /\ lock' = 0
            /\ pc' = [pc EXCEPT ![t] = "idle"]
            /\ local' = [local EXCEPT ![t] = NoCall]
            /\ UNCHANGED episode_signals
    /\ last_failure' = NoCall
    /\ UNCHANGED <<queue, returned, recent_errors, wvars, tvars, pvars, avars>>

\* the return of http_transport.send_success_signal, still under the lock:
\* del self._recent_errors[fingerprint] unless the call raised
capture_success_sent(t) ==
    /\ pc[t] = "suc_send"
    /\ \E o \in Outcomes :
          recent_errors' = IF SignalResult(o) = "raise"
                           THEN recent_errors
                           ELSE Delete(recent_errors, local[t].fingerprint)
    /\ lock' = 0
    /\ pc' = [pc EXCEPT ![t] = "idle"]
    /\ local' = [local EXCEPT ![t] = NoCall]
    /\ UNCHANGED <<queue, returned, recent_successes, last_failure,
                   episode_signals, wvars, tvars, pvars, avars>>

\* half an hour passes
HalfHour ==
    /\ recent_errors' = Aged(recent_errors)
    /\ recent_successes' = Aged(recent_successes)
    /\ UNCHANGED <<queue, returned, lock, pc, local, last_failure,
                   episode_signals, wvars, tvars, pvars, avars>>

TrackerNext ==
    \/ \E t \in Threads :
          \/ capture_exception_call(t)
          \/ capture_exception_locked(t)
          \/ capture_success_call(t)
          \/ capture_success_locked(t)
          \/ capture_success_sent(t)
    \/ HalfHour

TrackerSpec == Init /\ [][TrackerNext]_vars

\* ------------------------------------------------- _generate_fingerprint
KeyError == <<"KeyError">>
FingerprintContexts ==
    {NoContext,
     [service |-> <<"a">>],
     [endpoint |-> <<"c">>],
     [service |-> Unknown, endpoint |-> Unknown],
     [service |-> <<"a">>, endpoint |-> <<"c">>],
     [service |-> <<"a">>, endpoint |-> <<"d">>],
     [service |-> <<"a", "|", "b">>, endpoint |-> <<"c">>],
     [service |-> <<"a">>, endpoint |-> <<"b", "|", "c">>]}
FingerprintInputs ==
    [error_type : {ValueError, KeyError}, context : FingerprintContexts]

\* the (exception type name, service, endpoint) of a captured error
Triple(in) ==
    <<in.error_type, Get(in.context, "service", Unknown),
      Get(in.context, "endpoint", Unknown)>>

FingerprintInit ==
    /\ CollectorInit /\ TransportInit /\ TrackerInit /\ EventInit /\ AppInit
    /\ fp_in \in FingerprintInputs \X FingerprintInputs
    /\ fp_out = <<>>

\* the next of the two _generate_fingerprint calls
GenerateFingerprint ==
    /\ Len(fp_out) < Len(fp_in)
    /\ LET in == fp_in[Len(fp_out) + 1]
       IN  fp_out' = Append(fp_out,
                            generate_fingerprint(in.error_type, in.context))
    /\ UNCHANGED <<fp_in, ambient, ev_out, cvars, tvars, kvars, avars>>

FingerprintNext == GenerateFingerprint

FingerprintSpec == FingerprintInit /\ [][FingerprintNext]_vars

\* ------------------------------------- rootsense.context and event building
\* set_tag("environment", "test")
set_tag ==
    /\ ambient' = [ambient EXCEPT
                     !.tags = SetItem(@, "environment", "test")]
    /\ UNCHANGED <<fp_in, fp_out, ev_out, cvars, tvars, kvars, avars>>

\* set_context("request", ...)
set_context ==
    /\ ambient' = [ambient EXCEPT !.extra = SetItem(@, "request", "/test")]
    /\ UNCHANGED <<fp_in, fp_out, ev_out, cvars, tvars, kvars, avars>>

\* set_user(user_id): the entries that are None are left out
set_user ==
    /\ \E user_id \in {"123", "None"} :
          ambient' = [ambient EXCEPT
                        !.user = IF user_id = "None" THEN EmptyDict
                                 ELSE [id |-> user_id]]
    /\ UNCHANGED <<fp_in, fp_out, ev_out, cvars, tvars, kvars, avars>>

push_breadcrumb ==
    /\ \E message \in {"b1", "b2"} :
          ambient' = [ambient EXCEPT
                        !.breadcrumbs = DequeAppend(@, message, MaxBreadcrumbs)]
    /\ UNCHANGED <<fp_in, fp_out, ev_out, cvars, tvars, kvars, avars>>

\* clear_context(); the next use creates the context anew
clear_context ==
    /\ ambient' = EmptyAmbient
    /\ UNCHANGED <<fp_in, fp_out, ev_out, cvars, tvars, kvars, avars>>

Uuids == {"uuid-1", "uuid-2"}       \* str(uuid.uuid4())
Times == {"t1", "t2"}               \* datetime.utcnow().isoformat()
EventContexts ==
    {NoContext,
     [endpoint |-> <<"/a">>, service |-> ProjectId],
     [event_id |-> "caller-id"],
     [timestamp |-> "caller-time"],
     [type |-> "caller-type"],
     [tags |-> "caller-tags"]}
EventKwargs ==
    {EmptyDict, [event_id |-> "kwarg-id"], [user |-> "kwarg-user"]}

\* the dict literal of capture_exception
ErrorEvent(event_id, now, fingerprint) ==
    [event_id |-> event_id, timestamp |-> now, type |-> "error",
     exception_type |-> "ValueError", message |-> "str(exception)",
     stack_trace |-> "traceback", fingerprint |-> fingerprint,
     environment |-> "environment", project_id |-> ProjectId]

\* the dict literal of capture_message
MessageEvent(event_id, now) ==
    [event_id |-> event_id, timestamp |-> now, type |-> "message",
     level |-> "info", message |-> "message",
     environment |-> "environment", project_id |-> ProjectId]

\* if context: event.update(context); event.update(kwargs)
Merged(event, context, kwargs) == Update(Update(event, context), kwargs)

\* what a capture_* call did: the event goes on the queue (which has room)
\* and the call returns event_id
Captured(kind, event, event_id, now, context, kwargs) ==
    [kind |-> kind, context |-> context, kwargs |-> kwargs, now |-> now,
     event |-> Merged(event, context, kwargs), returned |-> event_id]

capture_exception_event ==
    /\ \E event_id \in Uuids, now \in Times,
          context \in EventContexts, kwargs \in EventKwargs :
          ev_out' = Captured("error",
                             ErrorEvent(event_id, now,
                                 generate_fingerprint(ValueError, context)),
                             event_id, now, context, kwargs)
    /\ UNCHANGED <<fp_in, fp_out, ambient, cvars, tvars, kvars, avars>>

capture_message_event ==
    /\ \E event_id \in Uuids, now \in Times,
          context \in EventContexts, kwargs \in EventKwargs :
          ev_out' = Captured("message", MessageEvent(event_id, now),
                             event_id, now, context, kwargs)
    /\ UNCHANGED <<fp_in, fp_out, ambient, cvars, tvars, kvars, avars>>

EventNext ==
    \/ set_tag \/ set_context \/ set_user \/ push_breadcrumb \/ clear_context
    \/ capture_exception_event \/ capture_message_event

EventSpec == Init /\ [][EventNext]_vars

\* ------------------------------------------- init, middleware and close()
\* what the application's side leaves alone
nvars == <<cvars, tvars, kvars, pvars>>

\* rootsense.init(**kwargs): RootSenseClient(config) is constructed (its
\* __init__ ends with _initialized = True) and bound to rootsense._client
rootsense_init ==
    /\ \E c \in Clients \ created :
          /\ pkg_client' = c
          /\ created' = created \cup {c}
          /\ initialized' = initialized \cup {c}
    /\ UNCHANGED <<cfg_client, flush_calls, close_calls, mw, request, nvars>>

\* rootsense.config.init(...): the same, bound to rootsense.config._client
config_init ==
    /\ \E c \in Clients \ created :
          /\ cfg_client' = c
          /\ created' = created \cup {c}
          /\ initialized' = initialized \cup {c}
    /\ UNCHANGED <<pkg_client, flush_calls, close_calls, mw, request, nvars>>

\* rootsense.config.get_client(), the one the middleware modules import
get_client == cfg_client

MiddlewareKinds == {"wsgi", "asgi", "django"}

\* WSGIMiddleware(app, client=None), ASGIMiddleware(app, client=None):
\* self.client = client or get_client(); DjangoMiddleware(get_response):
\* self.client = get_client()
Middleware_init ==
    /\ \E kind \in MiddlewareKinds,
          client \in {NoClient} \cup created :
          /\ kind = "django" => client = NoClient
          /\ mw' = [kind |-> kind,
                    explicit |-> client # NoClient,
                    client |-> IF client # NoClient THEN client
                                                    ELSE get_client]
    /\ UNCHANGED <<pkg_client, cfg_client, created, initialized, flush_calls,
                   close_calls, request, nvars>>

\* what the wrapped application does with the request
AppOutcomes == {"returns", "Exception", "BaseException"}

\* what client.capture_exception(exc) does: it returns (an id or None), or
\* an exception leaves it, e.g. from str(exception)
CaptureOutcomes == {"returns", "raises"}

\* scope["type"]; a WSGI or Django request is always an HTTP request
Scopes(kind) == IF kind = "asgi" THEN {"http", "websocket"} ELSE {"http"}

\* the application is called inside the try block: always, but for an ASGI
\* scope that is not "http"
InsideTry(kind, scope) == ~(kind = "asgi" /\ scope # "http")

\* except Exception as exc
Caught(kind, scope, app) == InsideTry(kind, scope) /\ app = "Exception"

\* one request through __call__: "E" is the application's exception,
\* "CaptureError" the one that left capture_exception
Handled(kind, client, scope, app, capture) ==
    LET capturing == Caught(kind, scope, app) /\ client # NoClient
    IN  [kind |-> kind, client |-> client, scope |-> scope, app |-> app,
         captured |-> IF capturing THEN <<"E">> ELSE <<>>,
         propagated |-> IF app = "returns" THEN "none"
                        ELSE IF capturing /\ capture = "raises"
                        THEN "CaptureError"
                        ELSE "E"]

Middleware_call ==
    /\ mw # NoCall
    /\ \E scope \in Scopes(mw.kind), app \in AppOutcomes,
          capture \in CaptureOutcomes :
          request' = Handled(mw.kind, mw.client, scope, app, capture)
    /\ UNCHANGED <<pkg_client, cfg_client, created, initialized, flush_calls,
                   close_calls, mw, nvars>>

\* a close() that does not look at _initialized
Initialized_Always(c) == TRUE

\* if not self._initialized: return
Initialized(c) == c \in initialized

\* RootSenseClient.close(), one call after another (by the application, by
\* __exit__, by atexit): error_collector.flush(timeout=5), then
\* _initialized = False
close ==
    /\ \E c \in created :
          /\ close_calls' = [close_calls EXCEPT ![c] = IF @ < 2 THEN @ + 1 ELSE 2]
          /\ IF Initialized(c)
             THEN /\ flush_calls' =
                        [flush_calls EXCEPT ![c] = IF @ < 2 THEN @ + 1 ELSE 2]
                  /\ initialized' = initialized \ {c}
             ELSE UNCHANGED <<flush_calls, initialized>>
    /\ UNCHANGED <<pkg_client, cfg_client, created, mw, request, nvars>>

AppNext ==
    \/ rootsense_init
    \/ config_init
    \/ Middleware_init
    \/ Middleware_call
    \/ close

AppSpec == Init /\ [][AppNext]_vars

\* =================================================================== claims
Transient(o) == o = RequestException \/ o >= 500
WorkerRunning == worker_pc \in {"while", "get", "send"} /\ ~stop_event

\* C1 (as claimed; the code ignores config.buffer_size): with buffer_size = N,
\* the worker not started and no flush, the first N capture_* calls return an
\* event id, the (N+1)-th returns None and the queue then holds the first N
C1_DropAtBufferSize ==
    (worker_pc = "unstarted" /\ flush_pc = "idle") =>
        /\ \A k \in 1..Len(returned) :
              /\ k <= buffer_size => returned[k] # None
              /\ k = buffer_size + 1 => returned[k] = None
        /\ Len(returned) = buffer_size + 1 =>
              queue = [i \in 1..buffer_size |-> i]

\* C2 (as claimed; flush does not see the worker's batch): with the worker
\* running, once flush() has returned every event accepted before flush was
\* called has been passed to send_events
C2_FlushDelivers ==
    (flush_pc = "returned" /\ WorkerRunning) =>
        AcceptedUpTo(flush_mark) \subseteq SentIds

\* C3 (as claimed; the worker leaves the queue behind): once stop() was called
\* and the worker has exited, every event accepted before stop() has been
\* passed to send_events
C3_StopLosesNothing ==
    (stop_event /\ worker_pc = "stopped") =>
        AcceptedUpTo(stop_mark) \subseteq SentIds

\* C4: no captured event is in two lists passed to send_events, nor twice in
\* one, under every interleaving of producers, worker and flush
C4_NoDuplicateDelivery ==
    LET f == Flatten(sent)
    IN \A i, j \in 1..Len(f) : (i # j /\ f[i] = f[j]) => f[i] = Metric

C4_Witness ==
    /\ worker_pc = "send"
    /\ flush_pc = "send"
    /\ Len(sent) >= 2
    /\ Cardinality(SentIds) >= 2

\* C5 (as claimed; flush overtakes the worker's batch): an event enqueued
\* before another is passed to the transport no later than it
C5_FifoDelivery ==
    LET f == Flatten(sent)
    IN \A j \in 1..Len(f) :
          f[j] # Metric =>
              \A a \in AcceptedUpTo(Len(returned)) :
                  a < f[j] => \E i \in 1..(j - 1) : f[i] = a

C7_TimeFlush ==
    /\ [][(worker_pc = "get" /\ worker_pc' # "get" /\ since_flush' # <<>>
            /\ elapsed >= FlushInterval) =>
             (worker_pc' = "send" /\ Len(sent') = Len(sent) + 1
               /\ since_flush' = SubSeq(sent'[Len(sent')], 1, Len(since_flush')))]_vars
    /\ \A id \in 1..MaxCalls :
          (worker_pc # "unstarted"
             /\ id \in Elems(queue) \cup Elems(batch))
          ~> (id \in SentIds \/ stop_event)

C7_Witness ==
    /\ worker_pc = "send"
    /\ Len(returned) = 1
    /\ since_flush = <<1>>
    /\ Len(since_flush) < BatchSize
    /\ flush_pc = "idle"
    /\ sent = <<batch>>

\* C8 (as claimed; see C2): after K < capacity events and no producer since,
\* when flush with a large timeout has returned the queue is empty and the K
\* events were handed over in at most ceil(K / threshold) send_events calls
C8_FlushDrainsFully ==
    LET K == Cardinality(AcceptedUpTo(flush_mark))
    IN (/\ flush_pc = "returned"
        /\ deadline = Large
        /\ Len(returned) = flush_mark
        /\ K < QueueMaxSize) =>
           /\ queue = <<>>
           /\ AcceptedUpTo(flush_mark) \subseteq SentIds
           /\ Len(sent) <= (K + BatchSize - 1) \div BatchSize

\* C9: a send_events call on a non-empty list makes at most 3 POSTs; a POST
\* that ends in a 5xx status or a RequestException is followed by another one
\* while fewer than 3 were made; the call returns True exactly when a POST
\* answered 200 and False after exactly 3 POSTs when all failed transiently
C9_RetryBudget ==
    /\ Len(posts) <= 3
    /\ \A i \in 1..Len(posts) :
          (Transient(posts[i]) /\ i < 3 /\ i = Len(posts)) =>
              t_pc \in {"backoff", "post"}
    /\ (t_pc = "backoff") => Transient(posts[Len(posts)])
    /\ (t_pc = "returned" /\ t_events > 0) =>
          /\ t_result = "True" <=> (\E i \in 1..Len(posts) : posts[i] = 200)
          /\ t_result = "True" => posts[Len(posts)] = 200
          /\ (\A i \in 1..Len(posts) : Transient(posts[i])) =>
                (t_result = "False" /\ Len(posts) = 3)

C9_Witness ==
    /\ t_pc = "returned"
    /\ t_result = "True"
    /\ posts = <<500, RequestException, 200>>

\* C10: a 4xx answer ends the call: send_events returns False with no further
\* POST and no sleep after that answer
C10_ClientErrorTerminal ==
    \A i \in 1..Len(posts) :
        posts[i] \in 400..499 =>
            /\ i = Len(posts)
            /\ t_pc = "returned"
            /\ t_result = "False"
            /\ Len(sleeps) = i - 1

C10_Witness ==
    /\ t_pc = "returned"
    /\ posts = <<400>>
    /\ sleeps = <<>>
    /\ t_result = "False"

\* C11: within one send_events call the waits are 1 s after the first failed
\* attempt and 2 s after the second; there is none before the first attempt,
\* none after the third, none after an attempt that ends the call
C11_BackoffCadence ==
    /\ Len(sleeps) <= 2
    /\ \A i \in 1..Len(sleeps) : sleeps[i] = <<1, 2>>[i]
    /\ t_pc = "post" => Len(sleeps) = Len(posts)
    /\ (t_pc \in {"backoff", "returned", "raised"} /\ t_events > 0) =>
          Len(sleeps) = Len(posts) - 1

C11_Witness ==
    /\ t_pc = "returned"
    /\ posts = <<503, 500, RequestException>>
    /\ sleeps = <<1, 2>>

\* C12 (as claimed; only requests.RequestException is caught): whatever the
\* POST does, send_events and send_success_signal return a boolean and
\* propagate no exception
C12_TransportNeverRaises ==
    /\ t_pc # "raised" /\ t_result \in {"none", "True", "False"}
    /\ s_pc # "raised" /\ s_result \in {"none", "True", "False"}

\* C13 (as claimed; send_success_signal posts once): a send_success_signal
\* call that returned False after a transient failure made 3 attempts
C13_SignalRetried ==
    (s_pc = "returned" /\ s_result = "False" /\ Transient(s_posts[Len(s_posts)]))
        => Len(s_posts) = MaxAttempts

\* C14 (as claimed; the success fingerprint hashes "*" where the failure
\* fingerprint hashes the exception's type name): when capture_exception with
\* endpoint E and service = project id has returned and capture_success(E) is
\* the next capture, under an hour later, capture_success makes one
\* send_success_signal call keyed by the fingerprint recorded for the failure
C14_AutoResolutionCorrelation ==
    [][\A t \in Threads :
         (/\ pc[t] = "suc_lock" /\ pc'[t] # "suc_lock"
          /\ last_failure # NoCall
          /\ last_failure.service = ProjectId
          /\ last_failure.endpoint = local[t].endpoint
          /\ recent_errors[last_failure.fingerprint] < Hour)
         => /\ pc'[t] = "suc_send"
            /\ local'[t].fingerprint = last_failure.fingerprint]_vars

\* C15 (as claimed; a send_success_signal call that raises skips the del, the
\* bug of C12): between two recordings of a failure for a fingerprint at most
\* one send_success_signal call is issued for it
C15_AtMostOneSignal ==
    \A f \in DOMAIN episode_signals : episode_signals[f] <= 1

\* C16: a capture_success call always upserts the success table entry of its
\* fingerprint; it calls send_success_signal iff the failure table holds an
\* entry for that fingerprint under 1 hour old; otherwise it makes no
\* transport call and leaves the failure table unchanged
C16_SignalCondition ==
    [][\A t \in Threads :
         (pc[t] = "suc_lock" /\ pc'[t] # "suc_lock") =>
            LET f == local[t].fingerprint
                q == f \in DOMAIN recent_errors /\ recent_errors[f] < Hour
            IN  /\ f \in DOMAIN recent_successes'
                /\ recent_successes'[f] = 0
                /\ (pc'[t] = "suc_send") <=> q
                /\ ~q => pc'[t] = "idle" /\ recent_errors' = recent_errors]_vars

C16_Witness ==
    \E t \in Threads :
        /\ pc[t] = "suc_send"
        /\ recent_successes[local[t].fingerprint] = 0
        /\ recent_errors[local[t].fingerprint] = 1

\* C20 (as claimed; capture_success posts the success signal itself, inside
\* "with self._lock"): no capture_* call is inside a transport call, and none
\* waits for the lock while its holder is inside a transport call
C20_CaptureNeverWaitsOnNetwork ==
    /\ \A t \in Threads : pc[t] # "suc_send"
    /\ \A t \in Threads :
          pc[t] \in {"exc_lock", "suc_lock"} =>
              ~(lock # 0 /\ pc[lock] = "suc_send")

\* C17 (as claimed; "|" inside a service or endpoint moves the boundary
\* between the joined fields): the fingerprints of two captured errors are
\* equal iff their (type name, service, endpoint) triples, with "unknown" for
\* what the context lacks, are equal
C17_FingerprintEquality ==
    Len(fp_out) = 2 =>
        (fp_out[1] = fp_out[2] <=> Triple(fp_in[1]) = Triple(fp_in[2]))

\* C18 (as claimed; event.update lets the caller's keys replace them): the
\* queued event has the type of its variant, the timestamp the collector
\* stamped and the event_id the call returned
C18_IdentityNotShadowed ==
    ev_out # NoCall =>
        /\ ev_out.event.type = ev_out.kind
        /\ ev_out.event.timestamp = ev_out.now
        /\ ev_out.event.event_id = ev_out.returned

\* C19 (as claimed; the collector never reads rootsense.context): the queued
\* event carries the thread's ambient tags, extra, user and breadcrumbs,
\* for each of them the caller did not set on the event
C19_AmbientEnrichment ==
    [][ev_out' # ev_out =>
         \A k \in {"tags", "extra", "user", "breadcrumbs"} :
            (/\ DOMAIN ambient[k] # {}
             /\ k \notin DOMAIN ev_out'.context \cup DOMAIN ev_out'.kwargs)
            => /\ k \in DOMAIN ev_out'.event
               /\ ev_out'.event[k] = ambient[k]]_vars

\* C24 (as claimed; flush() sends on its caller's thread, beside the worker):
\* the worker and flush() are never inside send_events at the same time
C24_OneBatchInFlight ==
    ~(worker_pc \in {"send", "final_send"} /\ flush_pc = "send")

\* C25 (as claimed; the worker appends the metric events to a full batch and
\* flush() drains the whole queue): no list passed to send_events is longer
\* than the batch threshold
C25_BatchSizeBound ==
    \A i \in 1..Len(sent) : Len(sent[i]) <= BatchSize

\* C27: when _send_batch returns, whatever send_events returned or raised,
\* the batch is not passed again, the queue is as it was, the worker's batch
\* is empty and the worker is back at the head of its loop
C27_FailedBatchDropped ==
    [][/\ (worker_pc = "send" /\ worker_pc' # "send") =>
             /\ batch' = <<>>
             /\ queue' = queue
             /\ sent' = sent
             /\ worker_pc' = "while"
       /\ (worker_pc = "final_send" /\ worker_pc' # "final_send") =>
             queue' = queue /\ sent' = sent
       /\ (flush_pc = "send" /\ flush_pc' # "send") =>
             queue' = queue /\ sent' = sent]_vars

C27_Witness ==
    /\ worker_pc = "get"
    /\ ~stop_event
    /\ sent = <<<<1>>>>
    /\ batch = <<>>
    /\ queue = <<2>>

\* C28: once the stop signal is set, a started worker reaches Stopped; after
\* leaving its loop it makes at most one send_events call, and from Stopped
\* on it neither dequeues nor sends
C28_WorkerTerminates ==
    /\ (stop_event /\ worker_pc # "unstarted") ~> (worker_pc = "stopped")
    /\ [][/\ worker_pc = "exit" =>
                /\ worker_pc' \in {"exit", "final_send", "stopped"}
                /\ sent' # sent =>
                      worker_pc' = "final_send" /\ Len(sent') = Len(sent) + 1
          /\ worker_pc \in {"final_send", "stopped"} =>
                /\ worker_pc' \in {"final_send", "stopped"}
                /\ sent' = sent
          /\ worker_pc \in {"exit", "final_send", "stopped"} =>
                /\ Len(queue') >= Len(queue)
                /\ SubSeq(queue', 1, Len(queue)) = queue
          /\ worker_pc = "stopped" => worker_pc' = "stopped"]_vars

C28_Witness ==
    /\ worker_pc = "stopped"
    /\ stop_event
    /\ Len(sent) = 2

\* C26 (as claimed; a send_success_signal call that raises, the bug of C12,
\* leaves the with block before the del): when a capture_success call that
\* invoked send_success_signal finishes, the failure table has no entry for
\* its fingerprint
C26_EntryClearedWhateverOutcome ==
    [][\A t \in Threads :
         (pc[t] = "suc_send" /\ pc'[t] # "suc_send") =>
             local[t].fingerprint \notin DOMAIN recent_errors']_vars

\* C29 (as claimed; the failure is recorded before the event is queued): a
\* capture_exception call that returns None for a full queue leaves the
\* failure table as it was
C29_DroppedErrorLeavesNoTrace ==
    [][\A t \in Threads :
         (/\ pc[t] = "exc_lock" /\ pc'[t] # "exc_lock"
          /\ returned'[Len(returned')] = None)
         => recent_errors' = recent_errors]_vars

\* C30: while a capture_success call is between reading the failure entry of
\* its fingerprint and deleting it, no other thread records a failure for
\* that fingerprint or deletes its entry, so the entry deleted is the one
\* whose timestamp was reported
C30_CheckSignalClearAtomic ==
    [][\A t \in Threads :
         pc[t] = "suc_send" =>
            /\ lock = t
            /\ local[t].fingerprint \in DOMAIN recent_errors
            /\ \A u \in Threads \ {t} :
                  (pc[u] \in {"exc_lock", "suc_lock"}
                   /\ local[u].fingerprint = local[t].fingerprint)
                  => pc'[u] = pc[u]]_vars

C30_Witness ==
    \E t \in Threads, u \in Threads :
        /\ pc[t] = "suc_send"
        /\ pc[u] = "exc_lock"
        /\ local[u].fingerprint = local[t].fingerprint

\* C21 (as claimed; an exception leaving capture_exception replaces the
\* application's, and ASGIMiddleware calls a non-HTTP application outside its
\* try block): when the application raises E, the middleware captures E if
\* it has a client, and E itself propagates
C21_MiddlewareReraises ==
    (request # NoCall /\ request.app # "returns") =>
        /\ request.propagated = "E"
        /\ request.client # NoClient => request.captured = <<"E">>

\* C22 (as claimed; rootsense.init binds rootsense._client, the middleware
\* reads rootsense.config._client): once rootsense.init() has returned a
\* client, rootsense.config.get_client() returns it, and a middleware built
\* without a client argument has a client
C22_OneClientPointer ==
    [][/\ pkg_client' # pkg_client => get_client' = pkg_client'
       /\ (mw' # mw /\ ~mw'.explicit /\ pkg_client # NoClient) =>
             mw'.client # NoClient]_vars

\* C23: the first close() of an initialized client calls flush once and
\* clears _initialized; a close() of a client that is not initialized calls
\* no flush and changes nothing
C23_CloseIdempotent ==
    [][\A c \in created :
          /\ flush_calls[c] <= 1
          /\ (c \in initialized /\ close_calls'[c] # close_calls[c]) =>
                /\ flush_calls'[c] = flush_calls[c] + 1
                /\ c \notin initialized'
          /\ c \notin initialized =>
                /\ flush_calls'[c] = flush_calls[c]
                /\ c \notin initialized'
                /\ close_calls'[c] # close_calls[c] =>
                      <<pkg_client', cfg_client', created', mw', request'>>
                         = <<pkg_client, cfg_client, created, mw, request>>]_vars

C23_Witness ==
    \E c \in created :
        /\ close_calls[c] = 2
        /\ flush_calls[c] = 1
        /\ c \notin initialized
====
